---- MODULE Spec2Model ----
(***************************************************************************)
(* PASETO v2.local token codec (package paseto): Encrypt, Decrypt,        *)
(* decodeBase64, pae, le64 and the randRead hook.                          *)
(*                                                                         *)
(* Byte slices are sequences of 0..255; a token is the sequence of its     *)
(* ASCII codes.  Where Go distinguishes a nil slice from an empty one (the *)
(* footer argument, the values Decrypt returns) a slice is a record        *)
(* [nil, b].                                                               *)
(*                                                                         *)
(* encoding/base64 is modelled bit for bit.  The two cryptographic         *)
(* primitives are libraries outside the repository; they are replaced by   *)
(* small stand-ins with the same interface and the properties the codec    *)
(* relies on: a keyed hash that is collision-free on the bounded inputs,   *)
(* and an encrypt-then-MAC AEAD (stream cipher + polynomial MAC over the   *)
(* associated data and the ciphertext).                                    *)
(***************************************************************************)
EXTENDS Integers, Sequences, FiniteSets, TLC

VARIABLES
  randRead,   \* the package-level hook: which random source Encrypt reads
  enc,        \* the last Encrypt call: arguments, what the source gave, result
  dec,        \* the Decrypt call made since the last Encrypt: token, key, how
              \* the token was made, result
  prev,       \* the Seal performed by the previous successful Encrypt (history)
  pc,         \* concurrent calls: each call's position in its function
  call,       \* concurrent calls: each call's arguments
  loc,        \* concurrent calls: each call's local variables
  heap,       \* concurrent calls: the byte buffers, by address
  paeA,       \* pae check: first list and its encoding
  paeB        \* pae check: second list and its encoding

vars == <<randRead, enc, dec, prev, pc, call, loc, heap, paeA, paeB>>

-----------------------------------------------------------------------------
(* Bounds of the model *)

MaxMsgLen == 2
MaxFooterLen == 1
MaxPaeElems == 3
NumCalls == 2

-----------------------------------------------------------------------------
(* Program constants *)

NonceSize == 24
KeySize == 32
TagSize == 16

\* var v2local = []byte("v2.local.")
v2local == <<118, 50, 46, 108, 111, 99, 97, 108, 46>>

Dot == 46

-----------------------------------------------------------------------------
(* Go slices *)

NilSlice == [nil |-> TRUE, b |-> <<>>]
Slice(b) == [nil |-> FALSE, b |-> b]

Rep(x, n) == [i \in 1..n |-> x]
At(s, i) == IF i >= 1 /\ i <= Len(s) THEN s[i] ELSE 0
Min(a, b) == IF a <= b THEN a ELSE b

\* bytes.HasPrefix
HasPrefix(s, p) == Len(s) >= Len(p) /\ SubSeq(s, 1, Len(p)) = p

\* bytes.IndexByte: the first position of c in s (1-based), 0 when absent
IndexByte(s, c) ==
  IF \E i \in 1..Len(s) : s[i] = c
    THEN CHOOSE i \in 1..Len(s) : s[i] = c /\ \A j \in 1..(i - 1) : s[j] # c
    ELSE 0

-----------------------------------------------------------------------------
(* encoding/base64, RawURLEncoding: URL alphabet, no padding, not strict *)

encodeURL ==
  <<65, 66, 67, 68, 69, 70, 71, 72, 73, 74, 75, 76, 77, 78, 79, 80, 81, 82,
    83, 84, 85, 86, 87, 88, 89, 90,
    97, 98, 99, 100, 101, 102, 103, 104, 105, 106, 107, 108, 109, 110, 111,
    112, 113, 114, 115, 116, 117, 118, 119, 120, 121, 122,
    48, 49, 50, 51, 52, 53, 54, 55, 56, 57, 45, 95>>

\* the decoder's table: the 6-bit value of a character, 255 for any other byte
decodeMap(c) ==
  IF c >= 65 /\ c <= 90 THEN c - 65
  ELSE IF c >= 97 /\ c <= 122 THEN c - 71
  ELSE IF c >= 48 /\ c <= 57 THEN c + 4
  ELSE IF c = 45 THEN 62
  ELSE IF c = 95 THEN 63
  ELSE 255

EncodedLen(n) == (n * 8 + 5) \div 6
\* the length with padding, (n / 4) * 3, where the unpadded n * 6 / 8 is meant
DecodedLenPadded(n) == (n \div 4) * 3
DecodedLen(n) == (n * 6) \div 8

\* Encode: 3 bytes -> 4 characters; a remainder of 1 or 2 bytes -> 2 or 3
Base64Encode(src) ==
  [j \in 1..EncodedLen(Len(src)) |->
     LET g == (j - 1) \div 4
         p == (j - 1) % 4
         val == At(src, 3 * g + 1) * 65536 + At(src, 3 * g + 2) * 256
                + At(src, 3 * g + 3)
     IN encodeURL[((val \div (64 ^ (3 - p))) % 64) + 1]]

IsNewline(c) == c = 10 \/ c = 13

Sextet(in, i) == IF i <= Len(in) THEN decodeMap(in[i]) ELSE 0

\* Decode: '\r' and '\n' are skipped, any other byte outside the alphabet is
\* an error, a final quantum of one character is an error, and the unused low
\* bits of a final quantum are not checked (the encoding is not strict).
Base64Decode(src) ==
  LET in == SelectSeq(src, LAMBDA c : ~IsNewline(c))
      bad == \E i \in 1..Len(in) : decodeMap(in[i]) = 255
  IN IF bad \/ Len(in) % 4 = 1
       THEN [ok |-> FALSE, b |-> <<>>]
       ELSE [ok |-> TRUE,
             b |-> [i \in 1..DecodedLen(Len(in)) |->
                      LET g == (i - 1) \div 3
                          p == (i - 1) % 3
                          val == Sextet(in, 4 * g + 1) * 262144
                                 + Sextet(in, 4 * g + 2) * 4096
                                 + Sextet(in, 4 * g + 3) * 64
                                 + Sextet(in, 4 * g + 4)
                      IN (val \div (256 ^ (2 - p))) % 256]]

\* func decodeBase64: the decoded bytes, a slice of a buffer of
\* DecodedLen(len(src)) bytes (its capacity)
decodeBase64NonEmpty(src) ==
  LET d == Base64Decode(src)
  IN [ok |-> d.ok /\ Len(src) > 0, b |-> d.b,
      cap |-> IF d.ok THEN DecodedLen(Len(src)) ELSE 0]

decodeBase64(src) ==
  LET d == Base64Decode(src)
  IN [ok |-> d.ok, b |-> d.b, cap |-> IF d.ok THEN DecodedLen(Len(src)) ELSE 0]

-----------------------------------------------------------------------------
(* pae and le64 *)

\* uint64(n) << 1 >> 1 written little-endian.  Lengths in the model are below
\* 2^31, so clearing bit 63 leaves n and the four high bytes are 0.
le64(n) ==
  [i \in 1..8 |-> IF i <= 4 THEN (n \div (256 ^ (i - 1))) % 256 ELSE 0]

RECURSIVE paeBodyNoLen(_, _)
\* the elements one after another, without their lengths
paeBodyNoLen(bb, i) ==
  IF i > Len(bb) THEN <<>>
  ELSE bb[i] \o paeBodyNoLen(bb, i + 1)

RECURSIVE paeBody(_, _)
paeBody(bb, i) ==
  IF i > Len(bb) THEN <<>>
  ELSE le64(Len(bb[i])) \o bb[i] \o paeBody(bb, i + 1)

pae(bb) == le64(Len(bb)) \o paeBody(bb, 1)

-----------------------------------------------------------------------------
(* golang.org/x/crypto/blake2b, stand-in *)

\* blake2b.New(24, key) then Write(m), Sum: 24 bytes from the key and m.
\* Byte 1 absorbs the length, bytes 2..24 the message bytes in turn.
blake2b(key, m) ==
  [i \in 1..NonceSize |->
     LET absorbed == IF i = 1 THEN Len(m) + 1
                     ELSE IF i - 1 <= Len(m) THEN m[i - 1] ELSE 0
     IN (At(key, i) + absorbed) % 256]

-----------------------------------------------------------------------------
(* golang.org/x/crypto/chacha20poly1305, stand-in *)

\* chacha20poly1305.NewX(k): an error unless len(k) = KeySize
NewXErr(k) == Len(k) # KeySize

KeyStream(k, n, i) ==
  (k[((i - 1) % KeySize) + 1] + n[((i - 1) % NonceSize) + 1] + i) % 256

XORKeyStream(k, n, p) ==
  [i \in 1..Len(p) |-> (p[i] + KeyStream(k, n, i)) % 256]

UnXORKeyStream(k, n, c) ==
  [i \in 1..Len(c) |-> (c[i] + 256 - KeyStream(k, n, i)) % 256]

RECURSIVE SumRange(_, _, _)
SumRange(t, lo, hi) ==
  IF lo > hi THEN 0
  ELSE IF lo = hi THEN t[lo]
  ELSE LET mid == (lo + hi) \div 2
       IN SumRange(t, lo, mid) + SumRange(t, mid + 1, hi)

\* the weight of input byte i in tag byte j: never 0 modulo 251
Weight(k, j, i) == 1 + ((i * (2 * j + 1) + k[j] + k[j + TagSize]) % 250)

\* the 16-byte tag over the associated data and the ciphertext, keyed by the
\* key: each tag byte is a weighted sum of the input modulo the prime 251
PolyTag(k, aad, c) ==
  LET x == aad \o c \o <<Len(aad) % 251, Len(c) % 251>>
  IN [j \in 1..TagSize |->
        (k[j] + SumRange([i \in 1..Len(x) |-> (x[i] * Weight(k, j, i)) % 251],
                         1, Len(x))) % 251]

\* aead.Seal(dst, nonce, plaintext, additionalData): dst || ciphertext || tag
Seal(k, dst, n, p, aad) ==
  LET c == XORKeyStream(k, n, p)
  IN dst \o c \o PolyTag(k, aad, c)

\* aead.Open(nil, nonce, ciphertext, additionalData)
Open(k, n, ct, aad) ==
  IF Len(ct) < TagSize THEN [err |-> TRUE, p |-> <<>>]
  ELSE LET c == SubSeq(ct, 1, Len(ct) - TagSize)
           tag == SubSeq(ct, Len(ct) - TagSize + 1, Len(ct))
       IN IF tag # PolyTag(k, aad, c) THEN [err |-> TRUE, p |-> <<>>]
          ELSE [err |-> FALSE, p |-> UnXORKeyStream(k, n, c)]

-----------------------------------------------------------------------------
(* Encrypt *)

\* if _, err := randRead(buf); err != nil: only the error is looked at, the
\* count is dropped
ReadFailedIgnored(rd) == FALSE
ReadFailed(rd) == rd.err

\* steps 2 and 3: the nonce is the keyed hash of the message, the random bytes
\* being the hash key
DeriveNonceIsSeed(buf, m) == buf
DeriveNonce(buf, m) == blake2b(buf, m)

\* preAuth := pae(h, n, f)
PreAuthNoFooter(h, n, f) == pae(<<h, n>>)
PreAuth(h, n, f) == pae(<<h, n, f>>)

\* if len(f) > 0
FooterPresentNotNil(f) == ~f.nil
FooterPresent(f) == Len(f.b) > 0

\* Encrypt(message, key, footer), rd being what randRead(buf) gives when it is
\* called: the buffer after the call, the count and whether an error was
\* returned.  The result also records whether the source was read, the nonce
\* and whether Seal ran.
Encrypt(message, key, footer, rd) ==
  LET m == message
      k == key
      f == footer.b
      h == v2local
      NoToken(e, wasRead) ==
        [err |-> e, out |-> NilSlice, read |-> wasRead, n |-> <<>>, sealed |-> FALSE]
  IN IF NewXErr(k) THEN NoToken("key", FALSE)
     ELSE IF ReadFailed(rd) THEN NoToken("rand", TRUE)
     ELSE LET buf == rd.buf
              n == DeriveNonce(buf, m)
              preAuth == PreAuth(h, n, f)
              nc == Seal(k, n, n, m, preAuth)
              out == h \o Base64Encode(nc)
                       \o (IF FooterPresent(footer)
                             THEN <<Dot>> \o Base64Encode(f) ELSE <<>>)
          IN [err |-> "", out |-> Slice(out), read |-> TRUE, n |-> n, sealed |-> TRUE]

-----------------------------------------------------------------------------
(* Decrypt *)

Failure == [payload |-> NilSlice, footer |-> NilSlice, ok |-> FALSE, panic |-> FALSE]
Panic == [payload |-> NilSlice, footer |-> NilSlice, ok |-> FALSE, panic |-> TRUE]

\* n := raw[:24]; c := raw[24:].  Neither is guarded: raw[:24] panics when
\* cap(raw) < 24 and raw[24:] panics when len(raw) < 24.
SplitPanics(raw) == raw.cap < NonceSize \/ Len(raw.b) < NonceSize

\* Decrypt(token, key)
Decrypt(token, key) ==
  LET h == v2local
      k == key
  IN IF ~HasPrefix(token, h) THEN Failure
     ELSE
       LET m0 == SubSeq(token, Len(h) + 1, Len(token))
           i == IndexByte(m0, Dot)
           fd == IF i > 0 THEN decodeBase64(SubSeq(m0, i + 1, Len(m0)))
                 ELSE [ok |-> TRUE, b |-> <<>>, cap |-> 0]
           footer == IF i > 0 THEN Slice(fd.b) ELSE NilSlice
           m == IF i > 0 THEN SubSeq(m0, 1, i - 1) ELSE m0
       IN IF ~fd.ok THEN Failure
          ELSE
            LET raw == decodeBase64(m)
            IN IF ~raw.ok THEN Failure
               ELSE IF SplitPanics(raw) THEN Panic
               ELSE
                 LET n == SubSeq(raw.b, 1, NonceSize)
                     c == SubSeq(raw.b, NonceSize + 1, Len(raw.b))
                     preAuth == PreAuth(h, n, footer.b)
                 IN IF NewXErr(k) THEN Failure
                    ELSE
                      LET o == Open(k, n, c, preAuth)
                      IN IF o.err THEN Failure
                         ELSE [payload |-> IF Len(o.p) = 0 THEN NilSlice ELSE Slice(o.p),
                               footer |-> footer, ok |-> TRUE, panic |-> FALSE]

-----------------------------------------------------------------------------
(* The random source behind the randRead hook *)

\* var randRead = rand.Read
RandReader == [kind |-> "rand", rest |-> <<>>]

\* bytes.NewBuffer(nonce).Read, as the tests and the fuzz harness install it
BufferReader(b) == [kind |-> "buffer", rest |-> b]

\* the seeds the operating system's generator may deliver
Seeds == {Rep(0, NonceSize), Rep(45, NonceSize)}

\* the nonces the tests and the fuzz harness put in a buffer
HookNonces == {Rep(0, NonceSize), Rep(45, NonceSize)}

\* byte counts of a read that fails part way
ShortReads == {0, NonceSize - 1}

Fill(data, n) == [i \in 1..NonceSize |-> IF i <= n THEN data[i] ELSE 0]

\* One call randRead(buf) with len(buf) = 24: the outcomes the source allows.
\* crypto/rand.Read fills the buffer or returns an error (n = len(b) iff
\* err = nil).  bytes.Buffer.Read returns io.EOF on an empty buffer and
\* otherwise copies what it has, without error.
ReadOutcomes(src) ==
  IF src.kind = "rand"
    THEN {[buf |-> s, n |-> NonceSize, err |-> FALSE, next |-> src] : s \in Seeds}
         \cup {[buf |-> Fill(s, n), n |-> n, err |-> TRUE, next |-> src] :
                 s \in Seeds, n \in ShortReads}
    ELSE IF Len(src.rest) = 0
      THEN {[buf |-> Rep(0, NonceSize), n |-> 0, err |-> TRUE, next |-> src]}
      ELSE LET n == Min(NonceSize, Len(src.rest))
           IN {[buf |-> Fill(src.rest, n), n |-> n, err |-> FALSE,
                next |-> BufferReader(SubSeq(src.rest, n + 1, Len(src.rest)))]}

NoRead == [buf |-> <<>>, n |-> 0, err |-> FALSE, next |-> RandReader]

-----------------------------------------------------------------------------
(* Inputs *)

SeqsUpTo(S, n) == UNION {[1..k -> S] : k \in 0..n}

MsgBytes == {77, 255}
FooterBytes == {102, 255}

Messages == SeqsUpTo(MsgBytes, MaxMsgLen)
Footers == {NilSlice} \cup {Slice(s) : s \in SeqsUpTo(FooterBytes, MaxFooterLen)}

GoodKeys == {Rep(0, KeySize), Rep(42, KeySize)}
BadKeys == {Rep(0, KeySize - 1)}
Keys == GoodKeys \cup BadKeys

OtherKey(k) == IF k = Rep(0, KeySize) THEN Rep(42, KeySize) ELSE Rep(0, KeySize)

-----------------------------------------------------------------------------
(* Tokens handed to Decrypt *)

BodyOf(token) ==
  LET m0 == SubSeq(token, Len(v2local) + 1, Len(token))
      i == IndexByte(m0, Dot)
  IN IF i > 0 THEN SubSeq(m0, 1, i - 1) ELSE m0

HasDot(token) == IndexByte(SubSeq(token, Len(v2local) + 1, Len(token)), Dot) > 0

\* the text after the first '.' that follows the header
FooterTextOf(token) ==
  LET m0 == SubSeq(token, Len(v2local) + 1, Len(token))
      i == IndexByte(m0, Dot)
  IN SubSeq(m0, i + 1, Len(m0))

TailOf(token) ==
  IF HasDot(token) THEN <<Dot>> \o FooterTextOf(token) ELSE <<>>

\* Tokens made from a token t that Encrypt returned under key k: how each was
\* made, the token it was made from (base), the token and the key.
Variants(t, k) ==
  LET body == BodyOf(t)
      raw == Base64Decode(body).b
      tail == TailOf(t)
      nl == v2local \o <<10>> \o body \o tail
      V(how, base, token, key) ==
        [how |-> how, base |-> base, token |-> token, key |-> key]
  IN { V("same", t, t, k),
       V("otherkey", t, t, OtherKey(k)),
       V("badkey", t, t, Rep(0, KeySize - 1)),
       V("dot", t, t \o <<Dot>>, k),
       V("newline", t, nl, k),
       V("dot", nl, nl \o <<Dot>>, k),
       V("badprefix", t, <<86>> \o Tail(t), k),
       V("badbody", t, v2local \o <<61>> \o Tail(body) \o tail, k),
       V("badbody", t, v2local \o body \o <<65>> \o tail, k),
       V("badfooter", t, t \o <<Dot, 33>>, k),
       V("badfooter", t, t \o <<Dot, Dot>>, k),
       V("noauth", t,
         v2local \o Base64Encode(SubSeq(raw, 1, NonceSize + TagSize - 1)) \o tail, k),
       V("noauth", t, v2local \o Base64Encode(SubSeq(raw, 1, NonceSize)) \o tail, k),
       V("short", t,
         v2local \o Base64Encode(SubSeq(raw, 1, NonceSize - 1)) \o tail, k),
       V("short", t, v2local \o tail, k) }

\* Tokens that need no Encrypt.
FixedTokens ==
  LET V(how, token, key) ==
        [how |-> how, base |-> token, token |-> token, key |-> key]
  IN { V("badprefix", <<>>, Rep(0, KeySize)),
       V("badprefix", SubSeq(v2local, 1, Len(v2local) - 1), Rep(0, KeySize)),
       V("short", v2local, Rep(0, KeySize)),
       V("short", v2local \o Rep(10, 2 * KeySize), Rep(0, KeySize)),
       V("shortbadkey", v2local, Rep(0, KeySize - 1)),
       V("shortbadkey", v2local \o <<65, 65>>, <<>>) }

-----------------------------------------------------------------------------
(* The calls, one at a time *)

NoEnc ==
  [op |-> "none", m |-> <<>>, k |-> <<>>, f |-> NilSlice, rd |-> NoRead,
   res |-> [err |-> "", out |-> NilSlice, read |-> FALSE, n |-> <<>>, sealed |-> FALSE]]

NoDec ==
  [op |-> "none", how |-> "", base |-> <<>>, token |-> <<>>, key |-> <<>>,
   ref |-> Failure, res |-> Failure]

NoSeal == [k |-> <<>>, seed |-> <<>>, n |-> <<>>, m |-> <<>>, valid |-> FALSE]

Idle == [c \in {} |-> 0]

NoPae == [set |-> FALSE, bb |-> <<>>, out |-> <<>>]

\* the variables of the concurrent calls and of the pae check, unused here
RestUnchanged == UNCHANGED <<pc, call, loc, heap, paeA, paeB>>

Init ==
  /\ randRead = RandReader
  /\ enc = NoEnc
  /\ dec = NoDec
  /\ prev = NoSeal
  /\ pc = Idle
  /\ call = Idle
  /\ loc = Idle
  /\ heap = Idle
  /\ paeA = NoPae
  /\ paeB = NoPae

\* The calls are followed one test case at a time: the hook is set, Encrypt is
\* called, Decrypt is called on a token made from its result, and the results
\* are dropped (Return) before the next case.  The hook keeps its state.

\* randRead = bytes.NewBuffer(nonce).Read (a test, the fuzz harness), or
\* randRead = rand.Read (the test restoring the hook)
SetRandRead ==
  /\ enc.op = "none" /\ dec.op = "none"
  /\ \E src \in {RandReader} \cup {BufferReader(b) : b \in HookNonces} :
       randRead' = src
  /\ UNCHANGED <<enc, dec, prev>>
  /\ RestUnchanged

\* Encrypt(m, k, f).  The key is checked first: with a bad key the random
\* source is not read.
EncryptStep(m, k, f) ==
  IF NewXErr(k)
    THEN /\ enc' = [op |-> "Encrypt", m |-> m, k |-> k, f |-> f, rd |-> NoRead,
                    res |-> Encrypt(m, k, f, NoRead)]
         /\ UNCHANGED randRead
    ELSE \E rd \in ReadOutcomes(randRead) :
           /\ enc' = [op |-> "Encrypt", m |-> m, k |-> k, f |-> f, rd |-> rd,
                      res |-> Encrypt(m, k, f, rd)]
           /\ randRead' = rd.next

EncryptFrom(Ms, Ks, Fs) ==
  /\ enc.op = "none" /\ dec.op = "none"
  /\ \E m \in Ms, k \in Ks, f \in Fs : EncryptStep(m, k, f)
  /\ UNCHANGED <<dec, prev>>
  /\ RestUnchanged

EncryptCall == EncryptFrom(Messages, Keys, Footers)

\* the tokens a Decrypt call may be given after the last Encrypt
TokensToTry ==
  (IF enc.op = "Encrypt" /\ enc.res.err = ""
     THEN Variants(enc.res.out.b, enc.k) ELSE {}) \cup FixedTokens

\* Decrypt(token, key) of a token made from the token Encrypt returned, or of
\* a fixed one.  The token it was made from is decrypted under the same key
\* for comparison (ref).
DecryptStep(v) ==
  LET res == Decrypt(v.token, v.key)
  IN dec' = [op |-> "Decrypt", how |-> v.how, base |-> v.base, token |-> v.token,
             key |-> v.key,
             ref |-> IF v.base = v.token THEN res ELSE Decrypt(v.base, v.key),
             res |-> res]

DecryptCall ==
  /\ dec.op = "none"
  /\ \E v \in TokensToTry : DecryptStep(v)
  /\ UNCHANGED <<randRead, enc, prev>>
  /\ RestUnchanged

\* the test case ends: the results are dropped
Return ==
  /\ enc.op # "none" \/ dec.op # "none"
  /\ enc' = NoEnc
  /\ dec' = NoDec
  /\ prev' = NoSeal
  /\ UNCHANGED randRead
  /\ RestUnchanged

Next == SetRandRead \/ EncryptCall \/ DecryptCall \/ Return

Spec == Init /\ [][Next]_vars

-----------------------------------------------------------------------------
(* Round trip *)

\* C1: whenever Encrypt succeeded (32-byte key, any message, any footer, any
\* 24-byte seed) and Decrypt is given its token and the same key, Decrypt
\* returns ok = true, a payload byte-equal to the message and a footer
\* byte-equal to the footer passed to Encrypt; and Encrypt succeeds whenever the
\* key has 32 bytes and the source delivered its 24 bytes.
RoundTrip ==
  /\ (enc.op = "Encrypt" /\ Len(enc.k) = KeySize /\ ~enc.rd.err
        /\ enc.rd.n = NonceSize)
       => enc.res.err = "" /\ ~enc.res.out.nil
  /\ (dec.op = "Decrypt" /\ dec.how = "same")
       => /\ dec.token = enc.res.out.b /\ dec.key = enc.k
          /\ dec.res.ok
          /\ ~dec.res.panic
          /\ dec.res.payload.b = enc.m
          /\ dec.res.footer.b = enc.f.b

RoundTripWitness ==
  /\ dec.op = "Decrypt" /\ dec.how = "same"
  /\ Len(enc.m) = MaxMsgLen /\ Len(enc.f.b) > 0
  /\ dec.res.ok /\ dec.res.payload.b = enc.m

-----------------------------------------------------------------------------
(* Short body *)

\* the token starts with the header and its body segment decodes to fewer than
\* 24 bytes
ShortBody(t) ==
  /\ HasPrefix(t, v2local)
  /\ LET d == Base64Decode(BodyOf(t)) IN d.ok /\ Len(d.b) < NonceSize

\* C3: for every token that starts with the header and whose body decodes to
\* fewer than 24 bytes, Decrypt returns ok = false as an ordinary result and
\* does not panic.
ShortBodyRejected ==
  (dec.op = "Decrypt" /\ ShortBody(dec.token))
    => ~dec.res.ok /\ ~dec.res.panic

-----------------------------------------------------------------------------
(* Uniform failure *)

BadBody(t) == HasPrefix(t, v2local) /\ ~Base64Decode(BodyOf(t)).ok

BadFooter(t) ==
  HasPrefix(t, v2local) /\ HasDot(t) /\ ~Base64Decode(FooterTextOf(t)).ok

\* C4: for every token that does not begin with the header, or whose body or
\* footer segment is not valid base64url, or that is opened with a key whose
\* length is not 32, or that fails authentication, Decrypt returns exactly
\* (nil, nil, false).
UniformFailure ==
  (/\ dec.op = "Decrypt"
   /\ \/ ~HasPrefix(dec.token, v2local)
      \/ BadBody(dec.token)
      \/ BadFooter(dec.token)
      \/ Len(dec.key) # KeySize
      \/ dec.how \in {"noauth", "otherkey"})
    => dec.res = Failure

-----------------------------------------------------------------------------
(* Random source failure *)

-----------------------------------------------------------------------------
(* Footer framing *)

CountByte(s, c) == Cardinality({i \in 1..Len(s) : s[i] = c})

\* C6: for every successful Encrypt(m, k, f) the token is the header followed
\* by base64url(nonce || sealed); what follows the header holds a '.' iff f is
\* not empty, and then exactly one, after which comes text that decodes to f;
\* and a zero-length footer gives the token a nil footer gives.
FooterFraming ==
  (enc.op = "Encrypt" /\ enc.res.err = "")
    => LET t == enc.res.out.b
           rest == SubSeq(t, Len(v2local) + 1, Len(t))
           body == Base64Decode(BodyOf(t))
       IN /\ HasPrefix(t, v2local)
          /\ body.ok
          /\ BodyOf(t) = Base64Encode(body.b)
          /\ Len(body.b) = NonceSize + Len(enc.m) + TagSize
          /\ SubSeq(body.b, 1, NonceSize) = enc.res.n
          /\ CountByte(rest, Dot) = (IF Len(enc.f.b) > 0 THEN 1 ELSE 0)
          /\ Len(enc.f.b) > 0 => Base64Decode(FooterTextOf(t)) = [ok |-> TRUE, b |-> enc.f.b]
          /\ Len(enc.f.b) = 0 => t = Encrypt(enc.m, enc.k, NilSlice, enc.rd).out.b

FooterFramingWitness ==
  /\ enc.op = "Encrypt" /\ enc.res.err = ""
  /\ Len(enc.f.b) = MaxFooterLen
  /\ CountByte(enc.res.out.b, Dot) = 3

-----------------------------------------------------------------------------
(* Trailing dot *)

\* C10: if a token with no '.' after the header decrypts under k to payload p,
\* the token followed by one '.' decrypts under k too, with the same payload
\* and a zero-length footer.
TrailingDotAccepted ==
  (dec.op = "Decrypt" /\ dec.how = "dot" /\ ~HasDot(dec.base) /\ dec.ref.ok)
    => /\ dec.token = dec.base \o <<Dot>>
       /\ dec.res.ok
       /\ dec.res.payload = dec.ref.payload
       /\ Len(dec.res.footer.b) = 0

TrailingDotWitness ==
  /\ dec.op = "Decrypt" /\ dec.how = "dot" /\ ~HasDot(dec.base) /\ dec.ref.ok
  /\ dec.res.ok /\ Len(dec.res.payload.b) > 0
  /\ dec.res.footer = Slice(<<>>) /\ dec.ref.footer = NilSlice

-----------------------------------------------------------------------------
(* Tampering *)

FlipBit(byte, bit) ==
  IF (byte \div (2 ^ bit)) % 2 = 1 THEN byte - 2 ^ bit ELSE byte + 2 ^ bit

FlipAt(b, pos, bit) == [b EXCEPT ![pos] = FlipBit(b[pos], bit)]

\* which part of the decoded body byte pos belongs to, the body being
\* nonce || ciphertext || tag
PartOf(raw, pos) ==
  IF pos <= NonceSize THEN "nonce"
  ELSE IF pos <= Len(raw) - TagSize THEN "ciphertext"
  ELSE "tag"

\* The tokens made from token t by decoding its body or its footer, changing
\* one bit and encoding it again.
Tampered(t, k) ==
  LET raw == Base64Decode(BodyOf(t)).b
      ft == Base64Decode(FooterTextOf(t)).b
      V(how, token) == [how |-> how, base |-> t, token |-> token, key |-> k]
  IN { V(PartOf(raw, pos),
         v2local \o Base64Encode(FlipAt(raw, pos, bit)) \o TailOf(t)) :
         pos \in 1..Len(raw), bit \in 0..7 }
     \cup
     (IF HasDot(t)
        THEN { V("footer",
                 v2local \o BodyOf(t) \o <<Dot>> \o Base64Encode(FlipAt(ft, pos, bit))) :
                 pos \in 1..Len(ft), bit \in 0..7 }
        ELSE {})

TamperMessages == {Rep(77, n) : n \in 0..MaxMsgLen}
TamperFooters == {NilSlice} \cup {Slice(Rep(102, n)) : n \in 1..MaxFooterLen}

TamperEncrypt == EncryptFrom(TamperMessages, {Rep(42, KeySize)}, TamperFooters)

TamperDecrypt ==
  /\ dec.op = "none"
  /\ enc.op = "Encrypt" /\ enc.res.err = ""
  /\ \E v \in Tampered(enc.res.out.b, enc.k) : DecryptStep(v)
  /\ UNCHANGED <<randRead, enc, prev>>
  /\ RestUnchanged

TamperNext == TamperEncrypt \/ TamperDecrypt \/ Return

SpecTamper == Init /\ [][TamperNext]_vars

Parts == {"nonce", "ciphertext", "tag", "footer"}

\* C2: for every token Encrypt produced under key k, the token with one bit of
\* its decoded nonce, ciphertext, tag or footer changed is refused by Decrypt
\* under k: ok = false.
TamperRejected ==
  (dec.op = "Decrypt" /\ dec.how \in Parts)
    => /\ dec.ref.ok
       /\ dec.token # dec.base
       /\ ~dec.res.ok
       /\ ~dec.res.panic

TamperWitness ==
  /\ dec.op = "Decrypt" /\ dec.how = "footer"
  /\ dec.ref.ok /\ Len(dec.ref.payload.b) > 0
  /\ dec.res = Failure

-----------------------------------------------------------------------------
(* Nonces of successive Encrypt calls *)

NonceFooters == {NilSlice}

NonceEncrypt == EncryptFrom(Messages, GoodKeys, NonceFooters)

\* between two Encrypt calls the tests install a fresh buffer
NonceSetRandRead ==
  /\ enc.op = "Encrypt" /\ ~prev.valid
  /\ \E src \in {RandReader} \cup {BufferReader(b) : b \in HookNonces} :
       randRead' = src
  /\ UNCHANGED <<enc, dec, prev>>
  /\ RestUnchanged

\* a second Encrypt call; what the first one sealed is kept in prev
EncryptAgain ==
  /\ enc.op = "Encrypt" /\ enc.res.sealed /\ ~prev.valid
  /\ prev' = [k |-> enc.k, seed |-> enc.rd.buf, n |-> enc.res.n, m |-> enc.m,
              valid |-> TRUE]
  /\ \E m \in Messages, k \in GoodKeys, f \in NonceFooters : EncryptStep(m, k, f)
  /\ UNCHANGED dec
  /\ RestUnchanged

NonceNext == SetRandRead \/ NonceEncrypt \/ NonceSetRandRead \/ EncryptAgain \/ Return

SpecNonce == Init /\ [][NonceNext]_vars

\* C9: two successful Encrypt calls with the same key and different messages
\* never seal under the same nonce; in particular with the same seed and
\* different messages the nonces differ, the nonce being the keyed hash of the
\* message and not the seed.
NoNonceReuse ==
  (prev.valid /\ enc.op = "Encrypt" /\ enc.res.sealed)
    => /\ (prev.k = enc.k /\ prev.m # enc.m) => prev.n # enc.res.n
       /\ (prev.seed = enc.rd.buf /\ prev.m # enc.m) => prev.n # enc.res.n
       /\ enc.res.n = blake2b(enc.rd.buf, enc.m)

NoNonceReuseWitness ==
  /\ prev.valid /\ enc.op = "Encrypt" /\ enc.res.sealed
  /\ prev.k = enc.k /\ prev.seed = enc.rd.buf /\ prev.m # enc.m
  /\ prev.n # enc.res.n

-----------------------------------------------------------------------------
(* pae on two lists *)

PaeStrings == {<<>>, <<97>>, <<98>>, <<97, 98>>}
PaeLists == SeqsUpTo(PaeStrings, MaxPaeElems)

PaeFirst ==
  /\ ~paeA.set
  /\ \E bb \in PaeLists : paeA' = [set |-> TRUE, bb |-> bb, out |-> pae(bb)]
  /\ UNCHANGED <<randRead, enc, dec, prev, pc, call, loc, heap, paeB>>

PaeSecond ==
  /\ paeA.set /\ ~paeB.set
  /\ \E bb \in PaeLists : paeB' = [set |-> TRUE, bb |-> bb, out |-> pae(bb)]
  /\ UNCHANGED <<randRead, enc, dec, prev, pc, call, loc, heap, paeA>>

PaeNext == PaeFirst \/ PaeSecond

SpecPae == Init /\ [][PaeNext]_vars

\* the number written little-endian in the 8 bytes of out after offset off
LittleEndian(out, off) ==
  out[off + 1] + out[off + 2] * 256 + out[off + 3] * 65536
  + (out[off + 4] % 128) * 16777216

HighBytesClear(out, off) ==
  out[off + 4] < 128 /\ \A i \in 5..8 : out[off + i] = 0

RECURSIVE PaeLayout(_, _, _, _)
\* out holds, from offset off on, elements i.. of bb, each as its 8-byte
\* length and its bytes, and nothing more
PaeLayout(out, bb, i, off) ==
  IF i > Len(bb) THEN Len(out) = off
  ELSE /\ Len(out) >= off + 8 + Len(bb[i])
       /\ HighBytesClear(out, off)
       /\ LittleEndian(out, off) = Len(bb[i])
       /\ SubSeq(out, off + 9, off + 8 + Len(bb[i])) = bb[i]
       /\ PaeLayout(out, bb, i + 1, off + 8 + Len(bb[i]))

\* C8: pae writes the 8-byte little-endian element count and then, for each
\* element, its 8-byte little-endian length and its bytes; and two different
\* lists never have the same encoding.
PaeInjective ==
  /\ paeA.set
       => /\ Len(paeA.out) >= 8
          /\ HighBytesClear(paeA.out, 0)
          /\ LittleEndian(paeA.out, 0) = Len(paeA.bb)
          /\ PaeLayout(paeA.out, paeA.bb, 1, 8)
  /\ (paeA.set /\ paeB.set /\ paeA.bb # paeB.bb) => paeA.out # paeB.out

PaeInjectiveWitness ==
  /\ paeA.set /\ paeB.set
  /\ paeA.bb = <<<<97>>, <<98>>>>
  /\ paeB.bb = <<<<97>>, <<>>, <<98>>>>
  /\ paeA.out # paeB.out

-----------------------------------------------------------------------------
(* Calls running in parallel *)

\* NumCalls calls of Encrypt and Decrypt share one key and run step by step in
\* any order.  Every buffer a call makes lives in heap under an address; a
\* heap cell keeps the bytes and the calls that read or wrote them.

Calls == 1..NumCalls

SharedKey == Rep(42, KeySize)

\* nc := make([]byte, 0, 24+len(m)+aead.Overhead()): a buffer of the call's own
NcAddrShared(c) == <<0, "nc">>
NcAddr(c) == <<c, "nc">>

\* dst := make([]byte, ...) in decodeBase64, for the body and for the footer
RawAddr(c) == <<c, "raw">>
FooterAddr(c) == <<c, "footer">>

Addrs == (0..NumCalls) \X {"nc", "raw", "footer"}

Store(h, a, c, bytes) == [h EXCEPT ![a] = [b |-> bytes, by |-> @.by \cup {c}]]
Touch(h, a, c) == [h EXCEPT ![a].by = @ \cup {c}]

ConcToken ==
  Encrypt(<<77>>, SharedKey, Slice(<<102>>),
          [buf |-> Rep(0, NonceSize), n |-> NonceSize, err |-> FALSE,
           next |-> RandReader]).out.b

ConcInputs ==
  << [op |-> "Encrypt", m |-> <<77>>, f |-> Slice(<<102>>), token |-> <<>>],
     [op |-> "Encrypt", m |-> <<>>, f |-> NilSlice, token |-> <<>>],
     [op |-> "Decrypt", m |-> <<>>, f |-> NilSlice, token |-> ConcToken],
     [op |-> "Decrypt", m |-> <<>>, f |-> NilSlice,
      token |-> v2local \o BodyOf(ConcToken)] >>

\* The calls are interchangeable, so it is enough to number them in the order
\* of their inputs.
ConcAssignments ==
  { [c \in Calls |-> ConcInputs[ix[c]]] :
      ix \in { f \in [Calls -> 1..Len(ConcInputs)] :
                 \A c \in 1..(NumCalls - 1) : f[c] <= f[c + 1] } }

NoLoc ==
  [rd |-> NoRead, n |-> <<>>, preAuth |-> <<>>, body |-> <<>>, hasFooter |-> FALSE,
   res |-> <<>>]

ConcInit ==
  /\ randRead = RandReader
  /\ enc = NoEnc
  /\ dec = NoDec
  /\ prev = NoSeal
  /\ call \in ConcAssignments
  /\ pc = [c \in Calls |-> "start"]
  /\ loc = [c \in Calls |-> NoLoc]
  /\ heap = [a \in Addrs |-> [b |-> <<>>, by |-> {}]]
  /\ paeA = NoPae
  /\ paeB = NoPae

ConcUnchanged == UNCHANGED <<randRead, enc, dec, prev, call, paeA, paeB>>

Finish(c, r) ==
  /\ pc' = [pc EXCEPT ![c] = "done"]
  /\ loc' = [loc EXCEPT ![c].res = r]

EncError(e, wasRead) ==
  [err |-> e, out |-> NilSlice, read |-> wasRead, n |-> <<>>, sealed |-> FALSE]

\* aead, err := chacha20poly1305.NewX(k)
ENewX ==
  \E c \in Calls :
    /\ pc[c] = "start" /\ call[c].op = "Encrypt"
    /\ IF NewXErr(SharedKey)
         THEN Finish(c, EncError("key", FALSE))
         ELSE pc' = [pc EXCEPT ![c] = "rand"] /\ UNCHANGED loc
    /\ UNCHANGED heap
    /\ ConcUnchanged

\* nc := make(...); buf := nc[:24]; randRead(buf)
ERand ==
  \E c \in Calls :
    /\ pc[c] = "rand"
    /\ \E rd \in ReadOutcomes(randRead) :
         /\ heap' = Store(heap, NcAddr(c), c, rd.buf)
         /\ IF ReadFailed(rd)
              THEN /\ pc' = [pc EXCEPT ![c] = "done"]
                   /\ loc' = [loc EXCEPT ![c].rd = rd,
                                         ![c].res = EncError("rand", TRUE)]
              ELSE /\ pc' = [pc EXCEPT ![c] = "hash"]
                   /\ loc' = [loc EXCEPT ![c].rd = rd]
    /\ ConcUnchanged

\* hash, err := blake2b.New(24, buf); hash.Write(m); nc = hash.Sum(nc)
EHash ==
  \E c \in Calls :
    /\ pc[c] = "hash"
    /\ LET n == DeriveNonce(heap[NcAddr(c)].b, call[c].m)
       IN /\ heap' = Store(heap, NcAddr(c), c, n)
          /\ loc' = [loc EXCEPT ![c].n = n]
    /\ pc' = [pc EXCEPT ![c] = "pae"]
    /\ ConcUnchanged

\* preAuth := pae(h, nc, f)
EPae ==
  \E c \in Calls :
    /\ pc[c] = "pae"
    /\ loc' = [loc EXCEPT ![c].preAuth =
                 PreAuth(v2local, heap[NcAddr(c)].b, call[c].f.b)]
    /\ heap' = Touch(heap, NcAddr(c), c)
    /\ pc' = [pc EXCEPT ![c] = "seal"]
    /\ ConcUnchanged

\* nc = aead.Seal(nc, nc, m, preAuth)
ESeal ==
  \E c \in Calls :
    /\ pc[c] = "seal"
    /\ LET nc == heap[NcAddr(c)].b
       IN heap' = Store(heap, NcAddr(c), c,
                        Seal(SharedKey, nc, nc, call[c].m, loc[c].preAuth))
    /\ pc' = [pc EXCEPT ![c] = "encode"]
    /\ UNCHANGED loc
    /\ ConcUnchanged

\* out := make([]byte, outlen); copy, Encode, '.', Encode; return out, nil
EEncode ==
  \E c \in Calls :
    /\ pc[c] = "encode"
    /\ LET out == v2local \o Base64Encode(heap[NcAddr(c)].b)
                    \o (IF FooterPresent(call[c].f)
                          THEN <<Dot>> \o Base64Encode(call[c].f.b) ELSE <<>>)
       IN Finish(c, [err |-> "", out |-> Slice(out), read |-> TRUE,
                     n |-> loc[c].n, sealed |-> TRUE])
    /\ heap' = Touch(heap, NcAddr(c), c)
    /\ ConcUnchanged

\* the header check, the split at the first '.', the footer's decoding
DSplit ==
  \E c \in Calls :
    /\ pc[c] = "start" /\ call[c].op = "Decrypt"
    /\ LET token == call[c].token
           m0 == SubSeq(token, Len(v2local) + 1, Len(token))
           i == IndexByte(m0, Dot)
           fd == decodeBase64(SubSeq(m0, i + 1, Len(m0)))
       IN IF ~HasPrefix(token, v2local)
            THEN Finish(c, Failure) /\ UNCHANGED heap
            ELSE IF i > 0 /\ ~fd.ok
              THEN Finish(c, Failure) /\ UNCHANGED heap
              ELSE /\ pc' = [pc EXCEPT ![c] = "body"]
                   /\ loc' = [loc EXCEPT
                                ![c].body = IF i > 0 THEN SubSeq(m0, 1, i - 1) ELSE m0,
                                ![c].hasFooter = i > 0]
                   /\ heap' = IF i > 0 THEN Store(heap, FooterAddr(c), c, fd.b)
                              ELSE heap
    /\ ConcUnchanged

\* raw, ok := decodeBase64(m); n := raw[:24]; c := raw[24:]
DBody ==
  \E c \in Calls :
    /\ pc[c] = "body"
    /\ LET raw == decodeBase64(loc[c].body)
       IN IF ~raw.ok THEN Finish(c, Failure) /\ UNCHANGED heap
          ELSE IF SplitPanics(raw) THEN Finish(c, Panic) /\ UNCHANGED heap
          ELSE /\ heap' = Store(heap, RawAddr(c), c, raw.b)
               /\ pc' = [pc EXCEPT ![c] = "dpae"]
               /\ UNCHANGED loc
    /\ ConcUnchanged

\* preAuth := pae(h, n, footer)
DPae ==
  \E c \in Calls :
    /\ pc[c] = "dpae"
    /\ LET n == SubSeq(heap[RawAddr(c)].b, 1, NonceSize)
           footer == IF loc[c].hasFooter THEN heap[FooterAddr(c)].b ELSE <<>>
       IN loc' = [loc EXCEPT ![c].preAuth = PreAuth(v2local, n, footer)]
    /\ heap' = Touch(IF loc[c].hasFooter THEN Touch(heap, FooterAddr(c), c) ELSE heap,
                     RawAddr(c), c)
    /\ pc' = [pc EXCEPT ![c] = "open"]
    /\ ConcUnchanged

\* aead, err := chacha20poly1305.NewX(k); payload, err = aead.Open(nil, n, c, preAuth)
DOpen ==
  \E c \in Calls :
    /\ pc[c] = "open"
    /\ LET raw == heap[RawAddr(c)].b
           n == SubSeq(raw, 1, NonceSize)
           ct == SubSeq(raw, NonceSize + 1, Len(raw))
           footer == IF loc[c].hasFooter THEN Slice(heap[FooterAddr(c)].b)
                     ELSE NilSlice
           o == Open(SharedKey, n, ct, loc[c].preAuth)
       IN IF NewXErr(SharedKey) \/ o.err THEN Finish(c, Failure)
          ELSE Finish(c, [payload |-> IF Len(o.p) = 0 THEN NilSlice ELSE Slice(o.p),
                          footer |-> footer, ok |-> TRUE, panic |-> FALSE])
    /\ heap' = Touch(heap, RawAddr(c), c)
    /\ ConcUnchanged

ConcNext ==
  ENewX \/ ERand \/ EHash \/ EPae \/ ESeal \/ EEncode \/ DSplit \/ DBody \/ DPae \/ DOpen

SpecConc == ConcInit /\ [][ConcNext]_vars

\* what call c returns when it runs alone, with the seed it was given
Sequential(c) ==
  IF call[c].op = "Encrypt"
    THEN Encrypt(call[c].m, SharedKey, call[c].f, loc[c].rd)
    ELSE Decrypt(call[c].token, SharedKey)

\* C7: under every interleaving each finished call has the result it has when
\* run alone with the same inputs and the same seed, and no buffer is read or
\* written by two calls.
ConcurrentAsSequential ==
  /\ \A c \in DOMAIN pc : pc[c] = "done" => loc[c].res = Sequential(c)
  /\ \A a \in DOMAIN heap : Cardinality(heap[a].by) <= 1

ConcurrentWitness ==
  /\ DOMAIN pc = Calls
  /\ \A c \in Calls : pc[c] = "done"
  /\ call[1].op = "Encrypt" /\ loc[1].res.err = ""
  /\ call[2].op = "Decrypt" /\ loc[2].res.ok
  /\ heap[NcAddr(1)].by = {1} /\ heap[RawAddr(2)].by = {2}

====
